---- MODULE Spec2Model ----
(***************************************************************************)
(* The accessibility rule engine of jsx-access-aid.                        *)
(*                                                                         *)
(* Markup text is a sequence of one-character strings, so that every       *)
(* regular expression, String.includes, String.replace and String.trim of  *)
(* the source is computed character by character, the way the code does.   *)
(* Offsets are 1-based here (TLA+ sequences); a JavaScript offset o is the  *)
(* index o + 1.                                                            *)
(***************************************************************************)
EXTENDS Integers, Sequences, FiniteSets, TLC

VARIABLES
  corpus,      \* the fragments the source text is typed from
  sourceCode,  \* the text in the editor
  typed,       \* the number of fragments typed
  pc,          \* "editing", "analyzed", "rejected", "reanalyzed" or "repeated"
  entry,       \* the entry point that was called
  result,      \* the FixResult of the run on sourceCode
  second,      \* the FixResult of the same entry point on result.code
  again,       \* the FixResult of the same entry point called again on sourceCode
  original,      \* generateDiff: its first argument
  fixed,         \* generateDiff: its second argument
  originalIndex, \* generateDiff: the cursor in originalLines (0-based)
  fixedIndex,    \* generateDiff: the cursor in fixedLines (0-based)
  diff,          \* generateDiff: the entries pushed so far
  dpc,           \* generateDiff: "idle", "loop" or "returned"
  page,        \* Index: "core" (pages/Index of fixAccessibility), "ai", or "none"
  isAnalyzing, \* Index: the isAnalyzing state
  pending,     \* Index: the source texts of the analyses started and not completed
  editedCode,  \* Index (ai): the editedCode state
  shownFor,    \* Index: the source text the stored result was computed from
  toast        \* Index: the title of the last toast

\* the variables of a call of generateDiff
diffVars == <<original, fixed, originalIndex, fixedIndex, diff, dpc>>

\* the variables of the pages that call the engines
pageVars == <<corpus, sourceCode, typed, pc, entry, result, second, again>>

\* the variables of the Index pages, with sourceCode and result
indexVars == <<page, isAnalyzing, pending, editedCode, shownFor, toast>>

vars == <<corpus, sourceCode, typed, pc, entry, result, second, again,
          original, fixed, originalIndex, fixedIndex, diff, dpc,
          page, isAnalyzing, pending, editedCode, shownFor, toast>>

-----------------------------------------------------------------------------
(* Characters *)

LowerCaseLetters ==
  {"a","b","c","d","e","f","g","h","i","j","k","l","m",
   "n","o","p","q","r","s","t","u","v","w","x","y","z"}

UpperToLower ==
  ("A" :> "a") @@ ("B" :> "b") @@ ("C" :> "c") @@ ("D" :> "d") @@ ("E" :> "e") @@
  ("F" :> "f") @@ ("G" :> "g") @@ ("H" :> "h") @@ ("I" :> "i") @@ ("J" :> "j") @@
  ("K" :> "k") @@ ("L" :> "l") @@ ("M" :> "m") @@ ("N" :> "n") @@ ("O" :> "o") @@
  ("P" :> "p") @@ ("Q" :> "q") @@ ("R" :> "r") @@ ("S" :> "s") @@ ("T" :> "t") @@
  ("U" :> "u") @@ ("V" :> "v") @@ ("W" :> "w") @@ ("X" :> "x") @@ ("Y" :> "y") @@
  ("Z" :> "z")

Digits == {"0","1","2","3","4","5","6","7","8","9"}

\* \w of a JavaScript regular expression: [A-Za-z0-9_]
WordChars == LowerCaseLetters \cup DOMAIN UpperToLower \cup Digits \cup {"_"}

\* \s of a JavaScript regular expression and the characters String.trim strips
\* (restricted to the white space a TLA+ string can spell)
WhiteSpace == {" ", "\n", "\t", "\r", "\f"}

\* canonical form of a character under the regular expression flag i
Lower(c) == IF c \in DOMAIN UpperToLower THEN UpperToLower[c] ELSE c

-----------------------------------------------------------------------------
(* String primitives *)

\* the pattern pat occurs in t at index i (case-sensitive)
StartsAt(t, i, pat) ==
  /\ i >= 1
  /\ i + Len(pat) - 1 <= Len(t)
  /\ \A k \in 1..Len(pat) : t[i + k - 1] = pat[k]

\* the pattern pat occurs in t at index i under flag i (case-insensitive)
StartsAtCI(t, i, pat) ==
  /\ i >= 1
  /\ i + Len(pat) - 1 <= Len(t)
  /\ \A k \in 1..Len(pat) : Lower(t[i + k - 1]) = Lower(pat[k])

\* the least element of a non-empty set of numbers
Least(S) == CHOOSE x \in S : \A y \in S : x <= y

\* String.indexOf(pat, from): the least index >= from where pat occurs, 0 if none
IndexOf(t, pat, from) ==
  LET S == {i \in from..(Len(t) - Len(pat) + 1) : StartsAt(t, i, pat)}
  IN  IF S = {} THEN 0 ELSE Least(S)

\* the same under flag i
IndexOfCI(t, pat, from) ==
  LET S == {i \in from..(Len(t) - Len(pat) + 1) : StartsAtCI(t, i, pat)}
  IN  IF S = {} THEN 0 ELSE Least(S)

\* String.includes
Includes(t, pat) == IndexOf(t, pat, 1) # 0

\* String.endsWith
EndsWith(t, pat) == Len(t) >= Len(pat) /\ StartsAt(t, Len(t) - Len(pat) + 1, pat)

\* String.replace(pat, rep) with a string pattern: the first occurrence only,
\* case-sensitive (no replacement string of the source contains a $ pattern)
ReplaceFirst(t, pat, rep) ==
  LET i == IndexOf(t, pat, 1)
  IN  IF i = 0 THEN t
      ELSE SubSeq(t, 1, i - 1) \o rep \o SubSeq(t, i + Len(pat), Len(t))

RECURSIVE SkipWs(_, _)
\* \s* from index i (greedy): the first index >= i that holds no white space
SkipWs(t, i) ==
  IF i <= Len(t) /\ t[i] \in WhiteSpace THEN SkipWs(t, i + 1) ELSE i

RECURSIVE SkipWsBack(_, _)
SkipWsBack(t, i) ==
  IF i >= 1 /\ t[i] \in WhiteSpace THEN SkipWsBack(t, i - 1) ELSE i

\* String.trim
Trim(t) == SubSeq(t, SkipWs(t, 1), SkipWsBack(t, Len(t)))

\* the first index >= i of t that holds character c, 0 if none
FindChar(t, c, i) ==
  LET S == {j \in i..Len(t) : t[j] = c}
  IN  IF S = {} THEN 0 ELSE Least(S)

\* the first ">" at or after index i, 0 if none: where [^>]* must stop
NextGt(t, i) == FindChar(t, ">", i)

\* the first "<" at or after index i, 0 if none
NextLt(t, i) == FindChar(t, "<", i)

\* the number of occurrences of character c in t[1..n]
CountIn(t, c, n) == Cardinality({k \in 1..n : t[k] = c})

\* the lookahead body [^>]*\b(?:n1|n2|...)\s*= anchored at index from, flag i
HasAttrAhead(t, from, names) ==
  LET g   == NextGt(t, from)
      lim == IF g = 0 THEN Len(t) ELSE g - 1
  IN  \E k \in from..lim :
        /\ k = 1 \/ t[k - 1] \notin WordChars
        /\ \E n \in names :
             /\ StartsAtCI(t, k, n)
             /\ LET e == SkipWs(t, k + Len(n)) IN e <= Len(t) /\ t[e] = "="

\* the text of /<[^>]*>/g removed (String.replace with the empty string)
RECURSIVE StripTags(_, _)
StripTags(t, i) ==
  IF i > Len(t) THEN <<>>
  ELSE IF t[i] = "<" /\ NextGt(t, i + 1) # 0
       THEN StripTags(t, NextGt(t, i + 1) + 1)
       ELSE <<t[i]>> \o StripTags(t, i + 1)

-----------------------------------------------------------------------------
(* The five patterns.  Each XMatchEnd(t, i, ...) is the regular expression   *)
(* anchored at index i: the index of the last character of the match, or 0   *)
(* when the expression does not match at i.  In all five, [^>]*? followed by  *)
(* ">" can only stop at the first ">" after the tag name, so each match is    *)
(* determined by the backtracking order of the source expression.            *)

AriaLabel == {<<"a","r","i","a","-","l","a","b","e","l">>}
AriaLabelOrLabelledBy == {<<"a","r","i","a","-","l","a","b","e","l">>, <<"a","r","i","a","-","l","a","b","e","l","l","e","d","b","y">>}
AriaLabelOrId == {<<"a","r","i","a","-","l","a","b","e","l">>, <<"i","d">>}
AriaLabelIdOrLabelledBy == {<<"a","r","i","a","-","l","a","b","e","l">>, <<"i","d">>, <<"a","r","i","a","-","l","a","b","e","l","l","e","d","b","y">>}

\* ImgMatchEnd without the negative lookahead: /<img([^>]*?)>/gi
ImgMatchEnd_NoLookahead(t, i) ==
  IF StartsAtCI(t, i, <<"<","i","m","g">>) THEN NextGt(t, i + 4) ELSE 0

\* /<img(?![^>]*\balt\s*=)([^>]*?)>/gi
ImgMatchEnd(t, i) ==
  IF StartsAtCI(t, i, <<"<","i","m","g">>) /\ ~HasAttrAhead(t, i + 4, {<<"a","l","t">>})
  THEN NextGt(t, i + 4)
  ELSE 0

RECURSIVE SvgClose(_, _)
\* .*?<\/svg>\s*<\/button> from index p, flags is: the first </svg> that is
\* followed by white space and </button>
SvgClose(t, p) ==
  LET q == IndexOfCI(t, <<"<","/","s","v","g",">">>, p)
  IN  IF q = 0 THEN 0
      ELSE LET b == SkipWs(t, q + 6)
           IN  IF StartsAtCI(t, b, <<"<","/","b","u","t","t","o","n",">">>) THEN b + 8
               ELSE SvgClose(t, q + 1)

\* /<button(?![^>]*\b<names>\s*=)([^>]*?)>\s*<svg[^>]*>.*?<\/svg>\s*<\/button>/gis
ButtonMatchEnd(t, i, names) ==
  IF StartsAtCI(t, i, <<"<","b","u","t","t","o","n">>) /\ ~HasAttrAhead(t, i + 7, names)
  THEN LET g == NextGt(t, i + 7)
       IN  IF g = 0 THEN 0
           ELSE LET s == SkipWs(t, g + 1)
                IN  IF ~StartsAtCI(t, s, <<"<","s","v","g">>) THEN 0
                    ELSE LET g2 == NextGt(t, s + 4)
                         IN  IF g2 = 0 THEN 0 ELSE SvgClose(t, g2 + 1)
  ELSE 0

RECURSIVE LinkTail(_, _)
\* (?:<[^>]*>)*\s*<\/a> from index p: the group is greedy, so the match that
\* consumes the most adjacent tags before a closing </a> wins
LinkTail(t, p) ==
  LET w    == SkipWs(t, p)
      here == IF StartsAtCI(t, w, <<"<","/","a",">">>) THEN w + 3 ELSE 0
  IN  IF p <= Len(t) /\ t[p] = "<" /\ NextGt(t, p + 1) # 0
      THEN LET deeper == LinkTail(t, NextGt(t, p + 1) + 1)
           IN  IF deeper # 0 THEN deeper ELSE here
      ELSE here

\* /<a(?![^>]*\b<names>\s*=)([^>]*?)>\s*(?:<[^>]*>)*\s*<\/a>/gi
LinkMatchEnd(t, i, names) ==
  IF StartsAtCI(t, i, <<"<","a">>) /\ ~HasAttrAhead(t, i + 2, names)
  THEN LET g == NextGt(t, i + 2)
       IN  IF g = 0 THEN 0 ELSE LinkTail(t, SkipWs(t, g + 1))
  ELSE 0

\* /<div(?![^>]*\brole\s*=)([^>]*?)onClick\s*=\s*[^>]*?>/gi
DivMatchEnd(t, i) ==
  IF StartsAtCI(t, i, <<"<","d","i","v">>) /\ ~HasAttrAhead(t, i + 4, {<<"r","o","l","e">>})
  THEN LET g == NextGt(t, i + 4)
       IN  IF g = 0 THEN 0
           ELSE IF \E p \in (i + 4)..(g - 1) :
                     /\ StartsAtCI(t, p, <<"o","n","C","l","i","c","k">>)
                     /\ LET e == SkipWs(t, p + 7) IN e < g /\ t[e] = "="
                THEN g
                ELSE 0
  ELSE 0

\* /<input(?![^>]*\b<names>\s*=)([^>]*?)(?:\s*\/>|>\s*<\/input>)/gi
InputMatchEnd(t, i, names) ==
  IF StartsAtCI(t, i, <<"<","i","n","p","u","t">>) /\ ~HasAttrAhead(t, i + 6, names)
  THEN LET g == NextGt(t, i + 6)
       IN  IF g = 0 THEN 0
           ELSE IF t[g - 1] = "/" THEN g
           ELSE LET s == SkipWs(t, g + 1)
                IN  IF StartsAtCI(t, s, <<"<","/","i","n","p","u","t",">">>) THEN s + 7 ELSE 0
  ELSE 0

\* /<label[^>]*\bfor\s*=\s*["'][^"']*["']/.test(code): no flag, case-sensitive
hasAssociatedLabel(code) ==
  \E i \in 1..Len(code) :
    /\ StartsAt(code, i, <<"<","l","a","b","e","l">>)
    /\ LET g   == NextGt(code, i + 6)
           lim == IF g = 0 THEN Len(code) ELSE g - 1
       IN  \E k \in (i + 6)..lim :
             /\ code[k - 1] \notin WordChars
             /\ StartsAt(code, k, <<"f","o","r">>)
             /\ LET e == SkipWs(code, k + 3)
                IN  /\ e <= Len(code) /\ code[e] = "="
                    /\ LET q == SkipWs(code, e + 1)
                       IN  /\ q <= Len(code) /\ code[q] \in {"\"", "'"}
                           /\ \E c \in (q + 1)..Len(code) : code[c] \in {"\"", "'"}

\* /(?:decorative|background|spacer|divider)/i.test(attrs)
isDecorative(attrs) ==
  \E w \in {<<"d","e","c","o","r","a","t","i","v","e">>, <<"b","a","c","k","g","r","o","u","n","d">>, <<"s","p","a","c","e","r">>, <<"d","i","v","i","d","e","r">>} :
    IndexOfCI(attrs, w, 1) # 0

\* the engines: "core" is accessibility-fixer.ts, "ai" is ai-accessibility-fixer
\* (performBasicAnalysis and applyFixes use the same five expressions)
Rules == 1..5

MatchEnd(eng, rule, t, i) ==
  CASE rule = 1 -> ImgMatchEnd(t, i)
    [] rule = 2 -> ButtonMatchEnd(t, i, IF eng = "core" THEN AriaLabel ELSE AriaLabelOrLabelledBy)
    [] rule = 3 -> LinkMatchEnd(t, i, IF eng = "core" THEN AriaLabel ELSE AriaLabelOrLabelledBy)
    [] rule = 4 -> DivMatchEnd(t, i)
    [] rule = 5 -> InputMatchEnd(t, i, IF eng = "core" THEN AriaLabelOrId ELSE AriaLabelIdOrLabelledBy)

RECURSIVE Matches(_, _, _, _)
\* String.replace with a g expression: the matches <<first, last>> from left to
\* right, each search resuming after the previous match
Matches(eng, rule, t, from) ==
  LET i == NextLt(t, from)
  IN  IF i = 0 THEN <<>>
      ELSE LET e == MatchEnd(eng, rule, t, i)
           IN  IF e = 0 THEN Matches(eng, rule, t, i + 1)
               ELSE <<<<i, e>>>> \o Matches(eng, rule, t, e + 1)

-----------------------------------------------------------------------------
(* Fix records.  A confidence is kept in hundredths (0.95 is 95).  The field  *)
(* elem is a history field the code does not have: the ordinal of the "<"     *)
(* that opens the match among the "<" of the text.  The engines only insert   *)
(* text, none of it holding "<" or a newline, and trim strips white space     *)
(* only, so elem names the same element in the original text, in every        *)
(* intermediate text and in the returned text.                                *)

\* getLineNumber counting the newlines only: a 0-based line
getLineNumber_ZeroBased(code, index) ==
  LET n == IF index > Len(code) THEN Len(code) ELSE index
  IN  CountIn(code, "\n", n)

\* getLineNumber: sourceCode.substring(0, index).split('\n').length + lineOffset,
\* index a JavaScript offset (substring clamps it to the length); lineOffset is
\* never assigned after its initialisation to 0
getLineNumber(code, index) ==
  LET n == IF index > Len(code) THEN Len(code) ELSE index
  IN  CountIn(code, "\n", n) + 1 + 0

\* the callback's record for a match m of `rule` starting at index i of text t
CoreFix(rule, t, i, m, source) ==
  LET line == getLineNumber(source, i - 1)
      elem == CountIn(t, "<", i)
  IN  CASE rule = 1 ->
             [category |-> "Images", action |-> "Added alt attribute",
              selector |-> IF Includes(SubSeq(m, 5, Len(m) - 1), <<"s","r","c">>)
                           THEN "img[src]" ELSE "img",
              summary |-> "Added empty alt attribute for decorative image",
              line |-> line, elem |-> elem]
        [] rule = 2 ->
             [category |-> "Interactive Elements", action |-> "Added aria-label",
              selector |-> "button > svg",
              summary |-> "Added aria-label for button with only SVG content",
              line |-> line, elem |-> elem]
        [] rule = 3 ->
             [category |-> "Navigation", action |-> "Added aria-label",
              selector |-> "a[href]",
              summary |-> "Added aria-label for link without text content",
              line |-> line, elem |-> elem]
        [] rule = 4 ->
             [category |-> "Interactive Elements", action |-> "Added role and tabIndex",
              selector |-> "div[onClick]",
              summary |-> "Made clickable div keyboard accessible",
              line |-> line, elem |-> elem]
        [] rule = 5 ->
             [category |-> "Forms", action |-> "Added aria-label",
              selector |-> "input",
              summary |-> "Added aria-label for input without associated label",
              line |-> line, elem |-> elem]

AIFix(rule, t, i, m, code) ==
  LET line == getLineNumber(code, i - 1)
      elem == CountIn(t, "<", i)
      attrs == SubSeq(m, 5, Len(m) - 1)
  IN  CASE rule = 1 ->
             [category |-> "Images", action |-> "Added alt attribute",
              selector |-> IF Includes(attrs, <<"s","r","c">>) THEN "img[src]" ELSE "img",
              summary |-> IF isDecorative(attrs)
                          THEN "Added empty alt attribute for decorative image"
                          ELSE "Added descriptive alt attribute for meaningful image",
              line |-> line, confidence |-> 95,
              explanation |-> IF isDecorative(attrs)
                THEN "Decorative images should have empty alt attributes to be ignored by screen readers"
                ELSE "Images should have descriptive alt text for screen reader users",
              elem |-> elem]
        [] rule = 2 ->
             [category |-> "Interactive Elements", action |-> "Added aria-label",
              selector |-> "button > svg",
              summary |-> "Added descriptive aria-label for button with only SVG content",
              line |-> line, confidence |-> 90,
              explanation |-> "Buttons with only SVG content need aria-label for screen reader accessibility",
              elem |-> elem]
        [] rule = 3 ->
             [category |-> "Navigation", action |-> "Added aria-label",
              selector |-> "a[href]",
              summary |-> "Added descriptive aria-label for link without text content",
              line |-> line, confidence |-> 90,
              explanation |-> "Links without text content need aria-label for screen reader users",
              elem |-> elem]
        [] rule = 4 ->
             [category |-> "Interactive Elements", action |-> "Added role and keyboard support",
              selector |-> "div[onClick]",
              summary |-> "Made clickable div keyboard accessible with role=\"button\" and tabIndex",
              line |-> line, confidence |-> 85,
              explanation |-> "Clickable divs need proper ARIA roles and keyboard navigation support",
              elem |-> elem]
        [] rule = 5 ->
             [category |-> "Forms", action |-> "Added accessibility attributes",
              selector |-> "input",
              summary |-> "Added aria-label for input without associated label",
              line |-> line, confidence |-> 90,
              explanation |-> "Form inputs need labels or aria-label for screen reader accessibility",
              elem |-> elem]

\* whether the callback of `rule` records a fix (and rewrites) for the match m:
\* the link rule tests the text left after stripping tags, the input rule the
\* label test on the whole original text
Records(rule, m, labelled) ==
  CASE rule = 3 -> Trim(StripTags(m, 1)) = <<>>
    [] rule = 5 -> ~labelled
    [] OTHER    -> TRUE

\* rule 4 of fixAccessibility
CoreDivRewrite(m) ==
  LET r1 == IF ~Includes(m, <<"r","o","l","e","=">>)
            THEN ReplaceFirst(m, <<"<","d","i","v">>, <<"<","d","i","v"," ","r","o","l","e","=","\"","b","u","t","t","o","n","\"">>) ELSE m
      r2 == IF ~Includes(r1, <<"t","a","b","I","n","d","e","x">>)
            THEN ReplaceFirst(r1, <<"<","d","i","v">>, <<"<","d","i","v"," ","t","a","b","I","n","d","e","x","=","{","0","}">>) ELSE r1
  IN  r2

\* the div rule of applyFixes
AIDivRewrite(m) ==
  LET r1 == IF ~Includes(m, <<"r","o","l","e","=">>)
            THEN ReplaceFirst(m, <<"<","d","i","v">>, <<"<","d","i","v"," ","r","o","l","e","=","\"","b","u","t","t","o","n","\"">>) ELSE m
      r2 == IF ~Includes(r1, <<"t","a","b","I","n","d","e","x">>)
            THEN ReplaceFirst(r1, <<"<","d","i","v">>, <<"<","d","i","v"," ","t","a","b","I","n","d","e","x","=","{","0","}">>) ELSE r1
      r3 == IF ~Includes(r2, <<"o","n","K","e","y","D","o","w","n">>)
            THEN ReplaceFirst(r2, <<"<","d","i","v">>,
                   <<"<","d","i","v"," ","o","n","K","e","y","D","o","w","n","=","{","(","e",")"," ","=",">"," ","e",".","k","e","y"," ","=","=","="," ","\"","E","n","t","e","r","\""," ","&","&"," ","e",".","c","u","r","r","e","n","t","T","a","r","g","e","t",".","c","l","i","c","k","(",")","}">>)
            ELSE r2
  IN  r3

\* the value the callback of fixAccessibility returns for the match m
CoreRewrite(rule, m, labelled) ==
  CASE rule = 1 -> <<"<","i","m","g">> \o SubSeq(m, 5, Len(m) - 1) \o <<" ","a","l","t","=","\"","\"",">">>
    [] rule = 2 -> ReplaceFirst(m, <<"<","b","u","t","t","o","n">>, <<"<","b","u","t","t","o","n"," ","a","r","i","a","-","l","a","b","e","l","=","\"","B","u","t","t","o","n","\"">>)
    [] rule = 3 -> IF Records(3, m, labelled)
                   THEN ReplaceFirst(m, <<"<","a">>, <<"<","a"," ","a","r","i","a","-","l","a","b","e","l","=","\"","L","i","n","k","\"">>) ELSE m
    [] rule = 4 -> CoreDivRewrite(m)
    [] rule = 5 -> IF Records(5, m, labelled)
                   THEN IF EndsWith(m, <<"/",">">>)
                        THEN ReplaceFirst(m, <<"/",">">>, <<" ","a","r","i","a","-","l","a","b","e","l","=","\"","I","n","p","u","t","\""," ","/",">">>)
                        ELSE ReplaceFirst(m, <<">">>, <<" ","a","r","i","a","-","l","a","b","e","l","=","\"","I","n","p","u","t","\"",">">>)
                   ELSE m

\* the value the callback of applyFixes returns for the match m
AIRewrite(rule, m, labelled) ==
  CASE rule = 1 -> <<"<","i","m","g">> \o SubSeq(m, 5, Len(m) - 1) \o <<" ","a","l","t","=","\"">>
                   \o (IF isDecorative(SubSeq(m, 5, Len(m) - 1))
                       THEN <<>> ELSE <<"D","e","s","c","r","i","p","t","i","v","e"," ","t","e","x","t"," ","f","o","r"," ","i","m","a","g","e">>)
                   \o <<"\"",">">>
    [] rule = 2 -> ReplaceFirst(m, <<"<","b","u","t","t","o","n">>, <<"<","b","u","t","t","o","n"," ","a","r","i","a","-","l","a","b","e","l","=","\"","B","u","t","t","o","n"," ","a","c","t","i","o","n","\"">>)
    [] rule = 3 -> IF Records(3, m, labelled)
                   THEN ReplaceFirst(m, <<"<","a">>, <<"<","a"," ","a","r","i","a","-","l","a","b","e","l","=","\"","L","i","n","k"," ","d","e","s","t","i","n","a","t","i","o","n","\"">>) ELSE m
    [] rule = 4 -> AIDivRewrite(m)
    [] rule = 5 -> IF Records(5, m, labelled)
                   THEN IF EndsWith(m, <<"/",">">>)
                        THEN ReplaceFirst(m, <<"/",">">>, <<" ","a","r","i","a","-","l","a","b","e","l","=","\"","I","n","p","u","t"," ","f","i","e","l","d","\""," ","/",">">>)
                        ELSE ReplaceFirst(m, <<">">>, <<" ","a","r","i","a","-","l","a","b","e","l","=","\"","I","n","p","u","t"," ","f","i","e","l","d","\"",">">>)
                   ELSE m

Rewrite(eng, rule, m, labelled) ==
  IF eng = "core" THEN CoreRewrite(rule, m, labelled) ELSE AIRewrite(rule, m, labelled)

RECURSIVE PassCode(_, _, _, _, _, _, _)
\* the string String.replace returns: the text between the matches ms kept, each
\* match replaced by its callback's value
PassCode(eng, rule, t, ms, labelled, k, pos) ==
  IF k > Len(ms) THEN SubSeq(t, pos, Len(t))
  ELSE SubSeq(t, pos, ms[k][1] - 1)
       \o Rewrite(eng, rule, SubSeq(t, ms[k][1], ms[k][2]), labelled)
       \o PassCode(eng, rule, t, ms, labelled, k + 1, ms[k][2] + 1)

RECURSIVE PassFixes_WithoutConfidence(_, _, _, _, _, _, _)
\* the callbacks of performBasicAnalysis pushing the records of fixAccessibility,
\* which have no confidence
PassFixes_WithoutConfidence(eng, rule, t, ms, labelled, source, k) ==
  IF k > Len(ms) THEN <<>>
  ELSE LET m == SubSeq(t, ms[k][1], ms[k][2])
       IN  (IF Records(rule, m, labelled)
            THEN << CoreFix(rule, t, ms[k][1], m, source) >>
            ELSE <<>>)
           \o PassFixes_WithoutConfidence(eng, rule, t, ms, labelled, source, k + 1)

RECURSIVE PassFixes(_, _, _, _, _, _, _)
\* the records the callbacks push, in match order
PassFixes(eng, rule, t, ms, labelled, source, k) ==
  IF k > Len(ms) THEN <<>>
  ELSE LET m == SubSeq(t, ms[k][1], ms[k][2])
       IN  (IF Records(rule, m, labelled)
            THEN << IF eng = "core" THEN CoreFix(rule, t, ms[k][1], m, source)
                                    ELSE AIFix(rule, t, ms[k][1], m, source) >>
            ELSE <<>>)
           \o PassFixes(eng, rule, t, ms, labelled, source, k + 1)

RECURSIVE CorePasses_LaterRulesFirst(_, _, _, _)
\* fixAccessibility with the records of a later rule put before those of an
\* earlier rule
CorePasses_LaterRulesFirst(rule, code, source, labelled) ==
  IF rule > 5 THEN [code |-> code, fixes |-> <<>>]
  ELSE LET ms   == Matches("core", rule, code, 1)
           rest == CorePasses_LaterRulesFirst(rule + 1,
                     PassCode("core", rule, code, ms, labelled, 1, 1), source, labelled)
       IN  [code  |-> rest.code,
            fixes |-> rest.fixes \o PassFixes("core", rule, code, ms, labelled, source, 1)]

RECURSIVE CorePasses(_, _, _, _)
\* rules rule..5 of fixAccessibility on the current text code
CorePasses(rule, code, source, labelled) ==
  IF rule > 5 THEN [code |-> code, fixes |-> <<>>]
  ELSE LET ms   == Matches("core", rule, code, 1)
           rest == CorePasses(rule + 1, PassCode("core", rule, code, ms, labelled, 1, 1),
                              source, labelled)
       IN  [code  |-> rest.code,
            fixes |-> PassFixes("core", rule, code, ms, labelled, source, 1) \o rest.fixes]

\* fixAccessibility returning the text without trimming it
fixAccessibility_Untrimmed(code) ==
  LET run == CorePasses(1, code, code, hasAssociatedLabel(code))
  IN  [code |-> run.code, fixes |-> run.fixes, hasChanges |-> Len(run.fixes) > 0]

\* fixAccessibility with hasChanges taken from the text instead of the fix list
fixAccessibility_ChangedByText(code) ==
  LET run == CorePasses(1, code, code, hasAssociatedLabel(code))
  IN  [code |-> Trim(run.code), fixes |-> run.fixes, hasChanges |-> Trim(run.code) # code]

\* fixAccessibility(sourceCode): FixResult
fixAccessibility(code) ==
  LET run == CorePasses(1, code, code, hasAssociatedLabel(code))
  IN  [code |-> Trim(run.code), fixes |-> run.fixes, hasChanges |-> Len(run.fixes) > 0]

-----------------------------------------------------------------------------
(* The AI service: the same five expressions, detection and rewriting apart. *)

RECURSIVE BasicPasses(_, _, _)
\* performBasicAnalysis: every expression scans the unmodified code (each
\* callback returns its match), and pushes its records
BasicPasses(rule, code, labelled) ==
  IF rule > 5 THEN <<>>
  ELSE PassFixes("ai", rule, code, Matches("ai", rule, code, 1), labelled, code, 1)
       \o BasicPasses(rule + 1, code, labelled)

performBasicAnalysis(code) == BasicPasses(1, code, hasAssociatedLabel(code))

RECURSIVE ApplyPasses(_, _, _)
ApplyPasses(rule, fixedCode, labelled) ==
  IF rule > 5 THEN fixedCode
  ELSE ApplyPasses(rule + 1,
         PassCode("ai", rule, fixedCode, Matches("ai", rule, fixedCode, 1), labelled, 1, 1),
         labelled)

\* applyFixes rewriting only when it is given a fix to apply
applyFixes_OnlyWhenFixes(code, fixes) ==
  IF fixes = <<>> THEN code ELSE Trim(ApplyPasses(1, code, hasAssociatedLabel(code)))

\* applyFixes(code, fixes): the fixes argument is never read
applyFixes(code, fixes) == Trim(ApplyPasses(1, code, hasAssociatedLabel(code)))

RECURSIVE CountTags(_, _, _)
\* code.match(/<name[^>]*>/g).length, case-sensitive (0 for a null match)
CountTags(code, name, from) ==
  LET i == IndexOf(code, name, from)
  IN  IF i = 0 THEN 0
      ELSE LET g == NextGt(code, i + Len(name))
           IN  IF g = 0 THEN 0 ELSE 1 + CountTags(code, name, g + 1)

RECURSIVE headingLevels(_, _)
\* code.match(/<h[1-6][^>]*>/g) mapped to the digit of each match
headingLevels(code, from) ==
  LET i == IndexOf(code, <<"<","h">>, from)
  IN  IF i = 0 THEN <<>>
      ELSE IF i + 2 <= Len(code) /\ code[i + 2] \in {"1","2","3","4","5","6"}
                /\ NextGt(code, i + 3) # 0
           THEN <<CHOOSE d \in 1..6 : <<"1","2","3","4","5","6">>[d] = code[i + 2]>>
                \o headingLevels(code, NextGt(code, i + 3) + 1)
           ELSE headingLevels(code, i + 1)

\* enhanceWithAIAnalysis(code, basicFixes, language)
enhanceWithAIAnalysis(code, basicFixes, language) ==
  LET semantic ==
        IF /\ Includes(code, <<"<","d","i","v">>)
           /\ ~Includes(code, <<"r","o","l","e","=">>)
           /\ ~Includes(code, <<"a","r","i","a","-","l","a","b","e","l","=">>)
           /\ CountTags(code, <<"<","d","i","v">>, 1) > 3
        THEN <<[category |-> "Semantics", action |-> "Suggested semantic elements",
                selector |-> "div",
                summary |-> "Consider using semantic HTML elements (main, section, article, nav) instead of generic divs",
                confidence |-> 75,
                explanation |-> "Semantic HTML improves accessibility and SEO by providing meaningful structure"]>>
        ELSE <<>>
      contrast ==
        IF Includes(code, <<"c","o","l","o","r",":">>) \/ Includes(code, <<"b","a","c","k","g","r","o","u","n","d","-","c","o","l","o","r",":">>)
        THEN <<[category |-> "ARIA", action |-> "Color contrast check",
                selector |-> "style",
                summary |-> "Verify color contrast ratios meet WCAG 2.1 AA standards (4.5:1 for normal text)",
                confidence |-> 70,
                explanation |-> "Insufficient color contrast makes text difficult to read for users with visual impairments"]>>
        ELSE <<>>
      levels == headingLevels(code, 1)
      headings ==
        IF \E k \in 2..Len(levels) : levels[k] - levels[k - 1] > 1
        THEN <<[category |-> "Semantics", action |-> "Heading structure",
                selector |-> "h1-h6",
                summary |-> "Avoid skipping heading levels (e.g., h1 to h3) for proper document outline",
                confidence |-> 80,
                explanation |-> "Proper heading hierarchy helps screen reader users navigate content effectively"]>>
        ELSE <<>>
      focus ==
        IF /\ Includes(code, <<"o","n","C","l","i","c","k">>)
           /\ ~Includes(code, <<"o","n","K","e","y","D","o","w","n">>)
           /\ ~Includes(code, <<"o","n","K","e","y","P","r","e","s","s">>)
        THEN <<[category |-> "Keyboard Navigation", action |-> "Keyboard event handling",
                selector |-> "interactive elements",
                summary |-> "Add keyboard event handlers (onKeyDown, onKeyPress) for interactive elements",
                confidence |-> 85,
                explanation |-> "Keyboard-only users need alternative ways to interact with clickable elements"]>>
        ELSE <<>>
  IN  basicFixes \o semantic \o contrast \o headings \o focus

RECURSIVE Distinct(_)
\* [...new Set(xs)]: the first occurrences, in order
Distinct(xs) ==
  IF xs = <<>> THEN <<>>
  ELSE LET init == Distinct(SubSeq(xs, 1, Len(xs) - 1))
           last == xs[Len(xs)]
       IN  IF \E k \in 1..Len(init) : init[k] = last THEN init ELSE Append(init, last)

\* f.confidence && ...: a fix without the field counts in no band
Confidence(f) == IF "confidence" \in DOMAIN f THEN f.confidence ELSE 0

\* the filter with >= where the code has >
CountWhere_FromBound(fixes, lo, hi) ==
  Cardinality({k \in 1..Len(fixes) : Confidence(fixes[k]) >= lo /\ Confidence(fixes[k]) <= hi})

\* fixes.filter(f => f.confidence && f.confidence > lo && f.confidence <= hi).length
CountWhere(fixes, lo, hi) ==
  Cardinality({k \in 1..Len(fixes) : Confidence(fixes[k]) > lo /\ Confidence(fixes[k]) <= hi})

\* generateAIAnalysis(code, fixes, language): the parts the narrative is
\* assembled from (the sentences themselves are fixed text around them)
generateAIAnalysis(code, fixes, language) ==
  LET categories == Distinct([k \in 1..Len(fixes) |-> fixes[k].category])
  IN  IF Len(fixes) = 0
      THEN [kind |-> "excellent"]
      ELSE [kind |-> "found",
            totalIssues    |-> Len(fixes),
            categories     |-> Len(categories),
            criticalIssues |-> CountWhere(fixes, 90, 100),
            moderateIssues |-> CountWhere(fixes, 70, 90),
            mostCommon     |-> SubSeq(categories, 1, IF Len(categories) < 2 THEN Len(categories) ELSE 2),
            react          |-> language \in {"jsx", "tsx"}]

\* generateSuggestions(code, fixes, language)
generateSuggestions(code, fixes, language) ==
  LET Has(c) == \E k \in 1..Len(fixes) : fixes[k].category = c
  IN  (IF Has("Images")
       THEN <<"Use descriptive alt text for images that convey information, and empty alt attributes for decorative images">>
       ELSE <<>>)
      \o (IF Has("Interactive Elements")
          THEN <<"Ensure all interactive elements are keyboard accessible and have proper ARIA labels">>
          ELSE <<>>)
      \o (IF Has("Forms")
          THEN <<"Associate form labels with inputs using the 'for' attribute or wrap inputs in label elements">>
          ELSE <<>>)
      \o (IF Has("Semantics")
          THEN <<"Use semantic HTML elements to provide meaningful structure and improve screen reader navigation">>
          ELSE <<>>)
      \o (IF language \in {"jsx", "tsx"}
          THEN <<"Consider using React Testing Library's accessibility queries to test your components",
                 "Implement focus management for dynamic content and modal dialogs">>
          ELSE <<>>)
      \o (IF Len(fixes) > 5
          THEN <<"Run automated accessibility testing tools like axe-core or Lighthouse to catch additional issues">>
          ELSE <<>>)

\* values of Math.random() in tenths, for the response's confidence
\* (0.85 + random * 0.01)
Randoms == {0, 9}

\* analyzeCode(request): the AIAnalysisResponse.  The other Math.random() sets
\* the simulated latency, which only postpones the response
analyzeCode(code, language, random) ==
  LET basicFixes      == performBasicAnalysis(code)
      aiEnhancedFixes == enhanceWithAIAnalysis(code, basicFixes, language)
  IN  [fixedCode   |-> applyFixes(code, aiEnhancedFixes),
       fixes       |-> aiEnhancedFixes,
       analysis    |-> generateAIAnalysis(code, aiEnhancedFixes, language),
       suggestions |-> generateSuggestions(code, aiEnhancedFixes, language),
       confidence  |-> 85 + random]

\* the try branch returning the response's confidence with the FixResult
FromResponse_WithConfidence(response) ==
  [code        |-> response.fixedCode,
   fixes       |-> response.fixes,
   hasChanges  |-> Len(response.fixes) > 0,
   analysis    |-> response.analysis,
   suggestions |-> response.suggestions,
   confidence  |-> response.confidence]

\* the FixResult the try branch of fixAccessibilityWithAI builds from the
\* response
FromResponse(response) ==
  [code        |-> response.fixedCode,
   fixes       |-> response.fixes,
   hasChanges  |-> Len(response.fixes) > 0,
   analysis    |-> response.analysis,
   suggestions |-> response.suggestions]

\* the try branch of fixAccessibilityWithAI
AIResult(code, language, random) == FromResponse(analyzeCode(code, language, random))

\* the catch branch of fixAccessibilityWithAI
FallbackResult(code) ==
  LET basicFixes == performBasicAnalysis(code)
  IN  [code        |-> applyFixes(code, basicFixes),
       fixes       |-> basicFixes,
       hasChanges  |-> Len(basicFixes) > 0,
       analysis    |-> [kind |-> "unavailable"],
       suggestions |-> <<"Enable AI analysis for more comprehensive accessibility insights">>]

\* the steps of analyzeCode, in call order
Steps ==
  {"performBasicAnalysis", "enhanceWithAIAnalysis", "generateAIAnalysis",
   "generateSuggestions", "applyFixes"}

\* what a call may meet: no step throws, or one step throws on its arguments
Faults == {"none"} \cup Steps

\* the promise of fixAccessibilityWithAI rejected: the error left the function
Rejection == [rejected |-> TRUE]

\* fixAccessibilityWithAI(sourceCode, language); fault names the step of
\* analyzeCode that throws ("none": the try branch returns).  The steps are
\* synchronous functions of their arguments, and the catch branch calls
\* performBasicAnalysis and applyFixes again on the same text (applyFixes never
\* reads its fixes argument), outside any try: a throw of one of these two
\* recurs there and leaves the function
fixAccessibilityWithAI(code, language, fault, random) ==
  IF fault = "none" THEN AIResult(code, language, random)
  ELSE IF fault \in {"performBasicAnalysis", "applyFixes"} THEN Rejection
  ELSE FallbackResult(code)

-----------------------------------------------------------------------------
(* Inputs.  The source text is typed fragment by fragment, at most MaxFrags  *)
(* fragments, all from one corpus.                                           *)

MaxFrags == 2

NL == <<"\n">>

ImageCorpus ==
  { <<"<","i","m","g"," ","s","r","c","=","\"","/","x",".","p","n","g","\"","/",">">>, <<"<","i","m","g"," ","c","l","a","s","s","=","\"","s","p","a","c","e","r","\"",">">>, <<"<","I","M","G",">">>, <<"<","i","m","g"," ","a","l","t","=","\"","a","\"",">">>, NL }

ButtonCorpus ==
  { <<"<","b","u","t","t","o","n",">","<","s","v","g","/",">","<","/","b","u","t","t","o","n",">">>, <<"<","b","u","t","t","o","n",">","<","s","v","g",">","<","/","s","v","g",">","<","/","b","u","t","t","o","n",">">>,
    <<"<","B","U","T","T","O","N",">","<","s","v","g",">","<","/","s","v","g",">","<","/","B","U","T","T","O","N",">">>,
    <<"<","b","u","t","t","o","n"," ","a","r","i","a","-","l","a","b","e","l","l","e","d","b","y","=","\"","t","\"",">","<","s","v","g",">","<","/","s","v","g",">","<","/","b","u","t","t","o","n",">">>, NL }

LinkCorpus ==
  { <<"<","a"," ","h","r","e","f","=","\"","#","\"",">","<","/","a",">">>, <<"<","a",">","<","i",">","<","/","i",">"," ","<","b",">","<","/","b",">","<","/","a",">">>, <<"<","A",">","<","a",">","<","/","a",">","<","/","A",">">>,
    <<"<","a",">","x","<","/","a",">">>, NL }

DivCorpus ==
  { <<"<","d","i","v"," ","o","n","C","l","i","c","k","=","{","(",")"," ","=",">"," ","{","}","}","/",">">>, <<"<","D","I","V"," ","o","n","C","l","i","c","k","=","{","f","}",">">>,
    <<"<","d","i","v"," ","r","o","l","e","=","\"","x","\""," ","o","n","C","l","i","c","k","=","{","f","}",">">>, <<"<","d","i","v"," ","s","t","y","l","e","=","\"","c","o","l","o","r",":"," ","r","e","d","\"",">">>, NL }

InputCorpus ==
  { <<"<","i","n","p","u","t"," ","/",">">>, <<"<","i","n","p","u","t",">","<","/","i","n","p","u","t",">">>, <<"<","l","a","b","e","l"," ","f","o","r","=","\"","n","\"",">">>, <<"<","i","n","p","u","t"," ","i","d","=","\"","n","\"","/",">">>,
    <<"<","i","n","p","u","t"," ","d","a","t","a","-","i","d","=","\"","n","\"","/",">">>, NL }

MixedCorpus ==
  { <<"<","i","m","g",">">>, <<"<","a","\n"," ","h","r","e","f","=","\"","#","\"",">","<","/","a",">">>, <<"<","d","i","v"," ","o","n","C","l","i","c","k","=","{","f","}",">">>, <<"<","i","n","p","u","t","/",">">>,
    <<"<","b","u","t","t","o","n",">","<","s","v","g",">","<","/","s","v","g",">","<","/","b","u","t","t","o","n",">">>, <<"<","i","m","g"," ","s","t","y","l","e","=","\"","c","o","l","o","r",":"," ","r","e","d","\"",">">>, NL }

Corpora == {ImageCorpus, ButtonCorpus, LinkCorpus, DivCorpus, InputCorpus, MixedCorpus}

Languages == {"jsx", "html"}

NoResult == [code |-> <<>>, fixes |-> <<>>, hasChanges |-> FALSE]

Call(e, code, random) ==
  IF e.fn = "fixAccessibility" THEN fixAccessibility(code)
  ELSE fixAccessibilityWithAI(code, e.language, e.fault, random)

\* no Index page is mounted
IndexIdle ==
  /\ page = "none"
  /\ isAnalyzing = FALSE
  /\ pending = <<>>
  /\ editedCode = <<>>
  /\ shownFor = <<>>
  /\ toast = "none"

\* no call of generateDiff is under way
DiffIdle ==
  /\ original = <<>> /\ fixed = <<>>
  /\ originalIndex = 0 /\ fixedIndex = 0
  /\ diff = <<>>
  /\ dpc = "idle"

-----------------------------------------------------------------------------
(* The state machine *)

\* the draws of Math.random() a call can make for the response's confidence:
\* analyzeCode draws it while building the response, after every step
Draws(fault) == IF fault = "none" THEN Randoms ELSE {0}

\* the draws a second call of the entry point in use can make
EntryDraws ==
  IF entry.fn = "fixAccessibilityWithAI" THEN Draws(entry.fault) ELSE {0}

Init ==
  /\ corpus \in Corpora
  /\ sourceCode = <<>>
  /\ typed = 0
  /\ pc = "editing"
  /\ entry = [fn |-> "none"]
  /\ result = NoResult
  /\ second = NoResult
  /\ again = NoResult
  /\ DiffIdle
  /\ IndexIdle

\* the editor's onChange: the text grows by one fragment
Type(f) ==
  /\ pc = "editing"
  /\ typed < MaxFrags
  /\ sourceCode' = sourceCode \o f
  /\ typed' = typed + 1
  /\ UNCHANGED <<corpus, pc, entry, result, second, again>>
  /\ UNCHANGED diffVars
  /\ UNCHANGED indexVars

\* a call of fixAccessibility on the editor's text
RunFixAccessibility ==
  /\ pc = "editing"
  /\ entry' = [fn |-> "fixAccessibility"]
  /\ result' = fixAccessibility(sourceCode)
  /\ pc' = "analyzed"
  /\ UNCHANGED <<corpus, sourceCode, typed, second, again>>
  /\ UNCHANGED diffVars
  /\ UNCHANGED indexVars

\* a call of fixAccessibilityWithAI on the editor's text; it resolves with a
\* FixResult or rejects
RunFixAccessibilityWithAI(language, fault, random) ==
  /\ pc = "editing"
  /\ entry' = [fn |-> "fixAccessibilityWithAI", language |-> language, fault |-> fault]
  /\ result' = fixAccessibilityWithAI(sourceCode, language, fault, random)
  /\ pc' = IF result' = Rejection THEN "rejected" ELSE "analyzed"
  /\ UNCHANGED <<corpus, sourceCode, typed, second, again>>
  /\ UNCHANGED diffVars
  /\ UNCHANGED indexVars

\* the same entry point called on the text it returned
Rerun(random) ==
  /\ pc = "analyzed"
  /\ second' = Call(entry, result.code, random)
  /\ pc' = "reanalyzed"
  /\ UNCHANGED <<corpus, sourceCode, typed, entry, result, again>>
  /\ UNCHANGED diffVars
  /\ UNCHANGED indexVars

\* the same entry point called once more on the same text, with the same
\* language tag
Repeat(random) ==
  /\ pc = "analyzed"
  /\ again' = Call(entry, sourceCode, random)
  /\ pc' = "repeated"
  /\ UNCHANGED <<corpus, sourceCode, typed, entry, result, second>>
  /\ UNCHANGED diffVars
  /\ UNCHANGED indexVars

Next ==
  \/ \E f \in corpus : Type(f)
  \/ RunFixAccessibility
  \/ \E language \in Languages, fault \in Faults :
       \E random \in Draws(fault) : RunFixAccessibilityWithAI(language, fault, random)
  \/ \E random \in EntryDraws : Rerun(random)

Spec == Init /\ [][Next]_vars

\* the same, with the second call made on the same text instead of on the
\* returned text
RepeatNext ==
  \/ \E f \in corpus : Type(f)
  \/ RunFixAccessibility
  \/ \E language \in Languages, fault \in Faults :
       \E random \in Draws(fault) : RunFixAccessibilityWithAI(language, fault, random)
  \/ \E random \in EntryDraws : Repeat(random)

RepeatSpec == Init /\ [][RepeatNext]_vars

-----------------------------------------------------------------------------
(* What the properties are stated with *)

\* the runs this state holds: <<text given, FixResult returned>>
Runs ==
  CASE pc = "editing"    -> {}
    [] pc = "rejected"   -> {}
    [] pc = "analyzed"   -> {<<sourceCode, result>>}
    [] pc = "reanalyzed" -> {<<sourceCode, result>>, <<result.code, second>>}
    [] pc = "repeated"   -> {<<sourceCode, result>>, <<sourceCode, again>>}

\* the records of the five core rules (an advisory record names no element)
IsCoreFix(f) == "elem" \in DOMAIN f

FixesOf(r) == {r.fixes[k] : k \in 1..Len(r.fixes)}

CoreFixesOf(r) == {f \in FixesOf(r) : IsCoreFix(f)}

\* split('\n').length
LineCount(t) == CountIn(t, "\n", Len(t)) + 1

\* the index of the e-th "<" of t (0 if there is none)
PosOfElem(t, e) ==
  LET S == {i \in 1..Len(t) : t[i] = "<" /\ CountIn(t, "<", i) = e}
  IN  IF S = {} THEN 0 ELSE CHOOSE i \in S : TRUE

\* the 1-based line of t on which its e-th "<" stands
LineOfElem(t, e) == CountIn(t, "\n", PosOfElem(t, e)) + 1

-----------------------------------------------------------------------------
(* C1: running an entry point on the text it returned returns that same text *)
C1_TextIdempotent ==
  pc = "reanalyzed" => second.code = result.code

(* C2: an element for which the first run recorded a core fix gets no fix    *)
(* record when the engine runs again on the first run's output               *)
C2_SecondPassSilent ==
  pc = "reanalyzed" =>
    \A f \in CoreFixesOf(result) : \A g \in CoreFixesOf(second) : g.elem # f.elem

(* C3: in every FixResult, of fixAccessibility and of both branches of       *)
(* fixAccessibilityWithAI, hasChanges is true exactly when fixes is not empty *)
C3_HasChangesIffFixes ==
  \A run \in Runs : run[2].hasChanges <=> (Len(run[2].fixes) > 0)

\* the catch branch of fixAccessibilityWithAI returned fixes for a text it
\* left unchanged
C3_Witness ==
  /\ pc = "analyzed"
  /\ entry.fn = "fixAccessibilityWithAI" /\ entry.fault # "none"
  /\ result.hasChanges
  /\ result.code = sourceCode

(* C4: every fix that has a line satisfies 1 <= line <= (number of lines of  *)
(* the text the run was given) + 1, whichever rule recorded it               *)
C4_LineBounds ==
  \A run \in Runs : \A f \in FixesOf(run[2]) :
    "line" \in DOMAIN f => 1 <= f.line /\ f.line <= LineCount(run[1]) + 1

\* a later rule of fixAccessibility recorded a fix on the last line of a text
\* of several lines, after rule 1 had lengthened the text before it
C4_Witness ==
  /\ pc = "analyzed" /\ entry.fn = "fixAccessibility"
  /\ LineCount(sourceCode) >= 2
  /\ \E j, k \in 1..Len(result.fixes) :
       /\ j < k
       /\ result.fixes[j].category = "Images"
       /\ result.fixes[k].category = "Navigation"
       /\ result.fixes[k].line = LineCount(sourceCode)

(* C5: the line of a fix is the line, in the text the run was given, on      *)
(* which the element the fix was recorded for starts                         *)
C5_LineAccurate ==
  \A run \in Runs : \A f \in CoreFixesOf(run[2]) :
    f.line = LineOfElem(run[1], f.elem)

-----------------------------------------------------------------------------
(* Tags as the text shows them: a tag opens at a "<" followed by its name    *)
(* and runs to the next ">".                                                 *)

\* the ordinals of the "<" of t at which the tag name (lower case) stands
TagElems(t, name) ==
  {CountIn(t, "<", i) : i \in {j \in 1..Len(t) : StartsAtCI(t, j, name)}}

\* the tag that opens at the e-th "<" has one of the attributes names
ElemHasAttr(t, e, tagLen, names) == HasAttrAhead(t, PosOfElem(t, e) + tagLen, names)

\* the text of t from its e-th "<" up to the next "<" (or the end)
Segment(t, e) ==
  LET i == PosOfElem(t, e)
      n == NextLt(t, i + 1)
  IN  SubSeq(t, i, IF n = 0 THEN Len(t) ELSE n - 1)

\* the attribute text of the <img tag at the e-th "<": up to the next ">"
ImgAttrs(t, e) ==
  LET i == PosOfElem(t, e)
      g == NextGt(t, i)
  IN  SubSeq(t, i + 4, IF g = 0 THEN Len(t) ELSE g - 1)

ImagesElems(r) == {f.elem : f \in {x \in CoreFixesOf(r) : x.category = "Images"}}

NumImagesFixes(r) ==
  Cardinality({k \in 1..Len(r.fixes) : r.fixes[k].category = "Images"})

\* the <img tags that have an alt attribute in the returned text and had none
\* in the text given
GainedAlt(t, out) ==
  {e \in TagElems(t, <<"<","i","m","g">>) :
     /\ ~ElemHasAttr(t, e, 4, {<<"a","l","t">>})
     /\ e \in TagElems(out, <<"<","i","m","g">>)
     /\ ElemHasAttr(out, e, 4, {<<"a","l","t">>})}

(* C6: every Images fix is for an <img tag that has an alt attribute in the  *)
(* returned text, and there are as many Images fixes as <img tags that       *)
(* gained an alt attribute                                                   *)
C6_ImagesCategory ==
  \A run \in Runs :
    /\ \A e \in ImagesElems(run[2]) :
         e \in TagElems(run[2].code, <<"<","i","m","g">>) /\ ElemHasAttr(run[2].code, e, 4, {<<"a","l","t">>})
    /\ NumImagesFixes(run[2]) = Cardinality(GainedAlt(run[1], run[2].code))

\* a run recorded Images fixes for some <img tags and none for another that
\* already had its alt attribute
C6_Witness ==
  /\ pc = "analyzed"
  /\ NumImagesFixes(result) = 1
  /\ Cardinality(TagElems(sourceCode, <<"<","i","m","g">>)) = 2

(* C7: an <img tag without alt gets alt="" when its attribute text holds     *)
(* decorative, background, spacer or divider, and a non-empty alt otherwise; *)
(* <img src="/x.png"/> gives exactly one fix, of category Images, with every *)
(* entry point                                                               *)
C7_ImageAltRule ==
  \A run \in Runs :
    /\ \A e \in TagElems(run[1], <<"<","i","m","g">>) :
         (~ElemHasAttr(run[1], e, 4, {<<"a","l","t">>}) /\ NextGt(run[1], PosOfElem(run[1], e)) # 0)
         => /\ ElemHasAttr(run[2].code, e, 4, {<<"a","l","t">>})
            /\ isDecorative(ImgAttrs(run[1], e))
                 <=> EndsWith(ImgAttrs(run[2].code, e), <<" ","a","l","t","=","\"","\"">>)
    /\ run[1] = <<"<","i","m","g"," ","s","r","c","=","\"","/","x",".","p","n","g","\"","/",">">>
         => /\ Len(run[2].fixes) = 1
            /\ run[2].fixes[1].category = "Images"

-----------------------------------------------------------------------------
\* the fixes a run recorded for the element at the e-th "<", of one category
NumFixesFor(r, e, category) ==
  Cardinality({k \in 1..Len(r.fixes) :
     /\ IsCoreFix(r.fixes[k])
     /\ r.fixes[k].elem = e
     /\ r.fixes[k].category = category})

\* a <button without aria-label and aria-labelledby opens at index i of t and
\* its whole content is one svg element, <svg .../> or <svg ...>...</svg>,
\* with white space at most around it
IsIconOnlyButton(t, i) ==
  /\ StartsAtCI(t, i, <<"<","b","u","t","t","o","n">>)
  /\ ~HasAttrAhead(t, i + 7, AriaLabelOrLabelledBy)
  /\ LET g == NextGt(t, i + 7)
     IN  /\ g # 0
         /\ LET s == SkipWs(t, g + 1)
            IN  /\ StartsAtCI(t, s, <<"<","s","v","g">>)
                /\ LET g2 == NextGt(t, s + 4)
                       q  == IndexOfCI(t, <<"<","/","s","v","g",">">>, g2 + 1)
                       svgEnd == IF g2 = 0 THEN 0
                                 ELSE IF t[g2 - 1] = "/" THEN g2
                                 ELSE IF q = 0 THEN 0 ELSE q + 5
                   IN  /\ svgEnd # 0
                       /\ StartsAtCI(t, SkipWs(t, svgEnd + 1), <<"<","/","b","u","t","t","o","n",">">>)

(* C8: every icon-only <button (self-closing svg included) gains aria-label  *)
(* in its opening tag and yields exactly one Interactive Elements fix, and   *)
(* every button a fix was recorded for has aria-label in the returned text   *)
C8_IconButtonRule ==
  \A run \in Runs :
    /\ \A i \in 1..Len(run[1]) :
         IsIconOnlyButton(run[1], i)
         => LET e == CountIn(run[1], "<", i)
            IN  /\ ElemHasAttr(run[2].code, e, 7, AriaLabel)
                /\ NumFixesFor(run[2], e, "Interactive Elements") = 1
    /\ \A f \in CoreFixesOf(run[2]) :
         f.selector = "button > svg" => ElemHasAttr(run[2].code, f.elem, 7, AriaLabel)

\* an <a tag without aria-label and aria-labelledby opens at index i of t and
\* what stands between it and its </a> is white space once the tags are removed
IsEmptyLink(t, i) ==
  /\ StartsAtCI(t, i, <<"<","a">>)
  /\ i + 2 <= Len(t) /\ t[i + 2] \in WhiteSpace \cup {">"}
  /\ ~HasAttrAhead(t, i + 2, AriaLabelOrLabelledBy)
  /\ LET g == NextGt(t, i + 2)
         q == IndexOfCI(t, <<"<","/","a",">">>, g + 1)
     IN  /\ g # 0 /\ q # 0
         /\ Trim(StripTags(SubSeq(t, g + 1, q - 1), 1)) = <<>>

(* C9: every <a>...</a> without aria-label and aria-labelledby whose content *)
(* is white space once its nested tags are stripped (the tags may be apart)  *)
(* gains aria-label and yields exactly one Navigation fix; <a href="#"></a>  *)
(* yields exactly one fix                                                    *)
C9_EmptyLinkRule ==
  \A run \in Runs :
    /\ \A i \in 1..Len(run[1]) :
         IsEmptyLink(run[1], i)
         => LET e == CountIn(run[1], "<", i)
            IN  /\ ElemHasAttr(run[2].code, e, 2, AriaLabel)
                /\ NumFixesFor(run[2], e, "Navigation") = 1
    /\ run[1] = <<"<","a"," ","h","r","e","f","=","\"","#","\"",">","<","/","a",">">> => Len(run[2].fixes) = 1

(* C10: every <div with onClick and without role has role="button",          *)
(* tabIndex={0} and an Enter-key onKeyDown handler in the returned text, and *)
(* <div onClick={() => {}}/> returns exactly one fix record, of category     *)
(* Interactive Elements, with fixAccessibility and fixAccessibilityWithAI    *)
C10_ClickableDivRule ==
  \A run \in Runs :
    /\ \A i \in 1..Len(run[1]) :
         DivMatchEnd(run[1], i) # 0
         => LET seg == Segment(run[2].code, CountIn(run[1], "<", i))
            IN  /\ Includes(seg, <<"r","o","l","e","=","\"","b","u","t","t","o","n","\"">>)
                /\ Includes(seg, <<"t","a","b","I","n","d","e","x","=","{","0","}">>)
                /\ Includes(seg, <<"o","n","K","e","y","D","o","w","n","=","{","(","e",")"," ","=",">"," ","e",".","k","e","y"," ","=","=","="," ","\"","E","n","t","e","r","\"">>)
    /\ run[1] = <<"<","d","i","v"," ","o","n","C","l","i","c","k","=","{","(",")"," ","=",">"," ","{","}","}","/",">">>
         => /\ Len(run[2].fixes) = 1
            /\ run[2].fixes[1].category = "Interactive Elements"

-----------------------------------------------------------------------------
\* the tag that opens at index i of t, its name tagLen long, has an attribute
\* of one of the names: the name stands after white space, inside the tag, and
\* an = follows it
TagHasAttribute(t, i, tagLen, names) ==
  LET g == NextGt(t, i + tagLen)
  IN  \E k \in (i + tagLen + 1)..((IF g = 0 THEN Len(t) ELSE g) - 1) :
        /\ t[k - 1] \in WhiteSpace
        /\ \E n \in names :
             /\ StartsAtCI(t, k, n)
             /\ LET e == SkipWs(t, k + Len(n)) IN e <= Len(t) /\ t[e] = "="

\* the text of the tag that opens at the e-th "<" of t, up to its ">"
TagText(t, e) ==
  LET i == PosOfElem(t, e)
      g == NextGt(t, i)
  IN  SubSeq(t, i, IF g = 0 THEN Len(t) ELSE g)

\* an <input tag opens at index i of t, self-closed (/>) or closed by
\* </input>, without the attributes aria-label, id and aria-labelledby
IsUnlabeledInput(t, i) ==
  /\ StartsAtCI(t, i, <<"<","i","n","p","u","t">>)
  /\ i + 6 <= Len(t) /\ t[i + 6] \in WhiteSpace \cup {"/", ">"}
  /\ ~TagHasAttribute(t, i, 6, AriaLabelIdOrLabelledBy)
  /\ LET g == NextGt(t, i + 6)
     IN  /\ g # 0
         /\ \/ t[g - 1] = "/"
            \/ StartsAtCI(t, SkipWs(t, g + 1), <<"<","/","i","n","p","u","t",">">>)

(* C11: when the text given holds a <label ... for="..."> no Forms fix is    *)
(* recorded and every <input tag is returned as it was; when it holds none,  *)
(* every self-closed or explicitly closed <input without aria-label, id and  *)
(* aria-labelledby has aria-label in the returned text and exactly one Forms *)
(* fix; <input /> alone gives exactly one fix                                *)
C11_InputRule ==
  \A run \in Runs :
    /\ hasAssociatedLabel(run[1])
         => /\ \A k \in 1..Len(run[2].fixes) : run[2].fixes[k].category # "Forms"
            /\ \A e \in TagElems(run[1], <<"<","i","n","p","u","t">>) :
                 TagText(run[2].code, e) = TagText(run[1], e)
    /\ ~hasAssociatedLabel(run[1])
         => \A i \in 1..Len(run[1]) :
              IsUnlabeledInput(run[1], i)
              => LET e == CountIn(run[1], "<", i)
                 IN  /\ TagHasAttribute(run[2].code, PosOfElem(run[2].code, e), 6, AriaLabel)
                     /\ NumFixesFor(run[2], e, "Forms") = 1
    /\ run[1] = <<"<","i","n","p","u","t"," ","/",">">>
         => /\ Len(run[2].fixes) = 1
            /\ run[2].fixes[1].category = "Forms"

-----------------------------------------------------------------------------
\* the rule a record comes from, told by its selector: 1..5 for the five
\* expressions in the order the code applies them, 6 for an advisory detector
RuleOf(f) ==
  CASE f.selector \in {"img", "img[src]"} -> 1
    [] f.selector = "button > svg"        -> 2
    [] f.selector = "a[href]"             -> 3
    [] f.selector = "div[onClick]"        -> 4
    [] f.selector = "input"               -> 5
    [] OTHER                              -> 6

(* C12: in every returned fix list the records stand in rule order: image    *)
(* fixes, then icon-button fixes, then link fixes, then clickable-div fixes, *)
(* then input fixes, then (AI path) the advisory fixes, wherever the         *)
(* elements stand in the text                                                *)
C12_FixOrder ==
  \A run \in Runs : \A j, k \in 1..Len(run[2].fixes) :
    j < k => RuleOf(run[2].fixes[j]) <= RuleOf(run[2].fixes[k])

\* a record of an earlier rule stands before a record of a later rule whose
\* element comes first in the text
C12_Witness ==
  /\ pc = "analyzed"
  /\ \E j, k \in 1..Len(result.fixes) :
       /\ j < k
       /\ IsCoreFix(result.fixes[j]) /\ IsCoreFix(result.fixes[k])
       /\ RuleOf(result.fixes[j]) < RuleOf(result.fixes[k])
       /\ result.fixes[j].elem > result.fixes[k].elem

-----------------------------------------------------------------------------
\* none of the expressions of the entry point called matches anywhere in t
\* and, for the try branch of fixAccessibilityWithAI, no advisory detector
\* fires on t
NoRuleMatches(t) ==
  /\ \A rule \in Rules :
       Matches(IF entry.fn = "fixAccessibility" THEN "core" ELSE "ai", rule, t, 1) = <<>>
  /\ (entry.fn = "fixAccessibilityWithAI" /\ entry.fault = "none")
       => enhanceWithAIAnalysis(t, <<>>, entry.language) = <<>>

\* out is t without the white space at its two ends
IsTrimOf(out, t) ==
  /\ out # <<>> => out[1] \notin WhiteSpace /\ out[Len(out)] \notin WhiteSpace
  /\ \E a \in 0..(Len(t) - Len(out)) :
       /\ SubSeq(t, a + 1, a + Len(out)) = out
       /\ \A k \in (1..a) \cup ((a + Len(out) + 1)..Len(t)) : t[k] \in WhiteSpace

(* C13 as stated: when no rule matches the text given, the fix list is empty *)
(* and the returned text is the text given, white space at its ends included *)
C13_NoMatchFrame ==
  \A run \in Runs :
    NoRuleMatches(run[1]) => run[2].fixes = <<>> /\ run[2].code = run[1]

(* C13 amended: when no rule matches the text given, the fix list is empty   *)
(* and the returned text is the text given without the white space at its    *)
(* two ends (the text given itself when it has none there)                   *)
C13_NoMatchTrimmed ==
  \A run \in Runs :
    NoRuleMatches(run[1]) => run[2].fixes = <<>> /\ IsTrimOf(run[2].code, run[1])

\* no rule matched a text that ends or begins with white space around markup
C13_Witness ==
  /\ pc = "analyzed"
  /\ NoRuleMatches(sourceCode)
  /\ result.code # <<>>
  /\ result.code # sourceCode

-----------------------------------------------------------------------------
(* C14: a call of fixAccessibilityWithAI in which a step of analyzeCode      *)
(* throws, whichever step, resolves with the fallback FixResult: the fixes   *)
(* of the basic analysis, the text of applyFixes and the narrative "AI       *)
(* analysis unavailable. Using basic accessibility checks."; it never        *)
(* rejects                                                                   *)
C14_WrapperFallback ==
  (pc # "editing" /\ entry.fn = "fixAccessibilityWithAI" /\ entry.fault # "none")
    => /\ pc # "rejected"
       /\ result.analysis = [kind |-> "unavailable"]
       /\ result.fixes = performBasicAnalysis(sourceCode)
       /\ result.code = applyFixes(sourceCode, result.fixes)

-----------------------------------------------------------------------------
(* C15: the text the try branch of fixAccessibilityWithAI returns is the     *)
(* text applyFixes gives for the basic fixes alone, with advisory fixes in   *)
(* the list or not, and is the same for every language tag                   *)
C15_AdvisoryTextNeutral ==
  \A run \in Runs :
    (entry.fn = "fixAccessibilityWithAI" /\ entry.fault = "none")
      => LET basicFixes == performBasicAnalysis(run[1])
         IN  /\ run[2].code = applyFixes(run[1], basicFixes)
             /\ \A language \in Languages :
                  applyFixes(run[1], enhanceWithAIAnalysis(run[1], basicFixes, language))
                    = run[2].code

\* the try branch returned a list that ends with an advisory fix
C15_Witness ==
  /\ pc = "analyzed"
  /\ entry.fn = "fixAccessibilityWithAI" /\ entry.fault = "none"
  /\ Len(result.fixes) > Len(performBasicAnalysis(sourceCode))
  /\ ~IsCoreFix(result.fixes[Len(result.fixes)])

-----------------------------------------------------------------------------
(* generateDiff(original, fixed).  The two texts are split at the newlines   *)
(* and the loop walks the two line arrays with one cursor each; one action   *)
(* per branch of the loop body.  The cursors keep their JavaScript values:   *)
(* cursor c stands at the line lines[c + 1] of the TLA+ sequence.            *)

MaxDiffLen == 3

DiffChars == {"a", "b", "\n"}

\* the texts of at most n characters
DiffTexts(n) == UNION {[1..k -> DiffChars] : k \in 0..n}

RECURSIVE Split(_)
\* t.split('\n'): the lines of t, one more than it has newlines ('' gives [''])
Split(t) ==
  LET i == FindChar(t, "\n", 1)
  IN  IF i = 0 THEN <<t>>
      ELSE <<SubSeq(t, 1, i - 1)>> \o Split(SubSeq(t, i + 1, Len(t)))

originalLines == Split(original)

fixedLines == Split(fixed)

\* lines[c] as the loop's conditions read it: <<line>>, or <<>> for undefined
\* (c at or past lines.length)
At(lines, c) == IF c < Len(lines) THEN <<lines[c + 1]>> ELSE <<>>

\* lines[c] || '': the line, '' for undefined (and for '' itself)
OrEmpty(lines, c) == IF c < Len(lines) THEN lines[c + 1] ELSE <<>>

originalLine == OrEmpty(originalLines, originalIndex)

fixedLine == OrEmpty(fixedLines, fixedIndex)

Entry(type, content, lineNumber) ==
  [type |-> type, content |-> content, lineNumber |-> lineNumber]

\* while (originalIndex < originalLines.length || fixedIndex < fixedLines.length)
InLoop ==
  /\ dpc = "loop"
  /\ originalIndex < Len(originalLines) \/ fixedIndex < Len(fixedLines)

DiffInit ==
  /\ corpus = MixedCorpus
  /\ sourceCode = <<>>
  /\ typed = 0
  /\ pc = "editing"
  /\ entry = [fn |-> "none"]
  /\ result = NoResult
  /\ second = NoResult
  /\ again = NoResult
  /\ original \in DiffTexts(MaxDiffLen)
  /\ fixed \in DiffTexts(MaxDiffLen)
  /\ originalIndex = 0
  /\ fixedIndex = 0
  /\ diff = <<>>
  /\ dpc = "loop"
  /\ IndexIdle

\* the first branch numbering its entry with the cursor itself, from 0
DiffSame_NumberedFromZero ==
  /\ InLoop
  /\ originalLine = fixedLine
  /\ diff' = Append(diff, Entry("unchanged", originalLine, originalIndex))
  /\ originalIndex' = originalIndex + 1
  /\ fixedIndex' = fixedIndex + 1
  /\ UNCHANGED <<original, fixed, dpc>>
  /\ UNCHANGED pageVars
  /\ UNCHANGED indexVars

\* if (originalLine === fixedLine)
DiffSame ==
  /\ InLoop
  /\ originalLine = fixedLine
  /\ diff' = Append(diff, Entry("unchanged", originalLine, originalIndex + 1))
  /\ originalIndex' = originalIndex + 1
  /\ fixedIndex' = fixedIndex + 1
  /\ UNCHANGED <<original, fixed, dpc>>
  /\ UNCHANGED pageVars
  /\ UNCHANGED indexVars

\* else if (originalIndex >= originalLines.length)
DiffAdded ==
  /\ InLoop
  /\ originalLine # fixedLine
  /\ originalIndex >= Len(originalLines)
  /\ diff' = Append(diff, Entry("added", fixedLine, fixedIndex + 1))
  /\ fixedIndex' = fixedIndex + 1
  /\ UNCHANGED <<original, fixed, originalIndex, dpc>>
  /\ UNCHANGED pageVars
  /\ UNCHANGED indexVars

\* else if (fixedIndex >= fixedLines.length)
DiffRemoved ==
  /\ InLoop
  /\ originalLine # fixedLine
  /\ originalIndex < Len(originalLines)
  /\ fixedIndex >= Len(fixedLines)
  /\ diff' = Append(diff, Entry("removed", originalLine, originalIndex + 1))
  /\ originalIndex' = originalIndex + 1
  /\ UNCHANGED <<original, fixed, fixedIndex, dpc>>
  /\ UNCHANGED pageVars
  /\ UNCHANGED indexVars

\* the changed branch advancing the fixed cursor alone
DiffChanged_FixedOnly ==
  /\ InLoop
  /\ originalLine # fixedLine
  /\ originalIndex < Len(originalLines)
  /\ fixedIndex < Len(fixedLines)
  /\ At(originalLines, originalIndex + 1) = At(fixedLines, fixedIndex + 1)
  /\ diff' = diff \o << Entry("removed", originalLine, originalIndex + 1),
                        Entry("added", fixedLine, fixedIndex + 1) >>
  /\ fixedIndex' = fixedIndex + 1
  /\ UNCHANGED <<original, fixed, originalIndex, dpc>>
  /\ UNCHANGED pageVars
  /\ UNCHANGED indexVars

\* else, if (originalLines[originalIndex + 1] === fixedLines[fixedIndex + 1])
DiffChanged ==
  /\ InLoop
  /\ originalLine # fixedLine
  /\ originalIndex < Len(originalLines)
  /\ fixedIndex < Len(fixedLines)
  /\ At(originalLines, originalIndex + 1) = At(fixedLines, fixedIndex + 1)
  /\ diff' = diff \o << Entry("removed", originalLine, originalIndex + 1),
                        Entry("added", fixedLine, fixedIndex + 1) >>
  /\ originalIndex' = originalIndex + 1
  /\ fixedIndex' = fixedIndex + 1
  /\ UNCHANGED <<original, fixed, dpc>>
  /\ UNCHANGED pageVars
  /\ UNCHANGED indexVars

\* else, the last branch
DiffKept ==
  /\ InLoop
  /\ originalLine # fixedLine
  /\ originalIndex < Len(originalLines)
  /\ fixedIndex < Len(fixedLines)
  /\ At(originalLines, originalIndex + 1) # At(fixedLines, fixedIndex + 1)
  /\ diff' = Append(diff, Entry("unchanged", originalLine, originalIndex + 1))
  /\ originalIndex' = originalIndex + 1
  /\ fixedIndex' = fixedIndex + 1
  /\ UNCHANGED <<original, fixed, dpc>>
  /\ UNCHANGED pageVars
  /\ UNCHANGED indexVars

\* the loop's condition is false: return diff
DiffReturn ==
  /\ dpc = "loop"
  /\ ~InLoop
  /\ dpc' = "returned"
  /\ UNCHANGED <<original, fixed, originalIndex, fixedIndex, diff>>
  /\ UNCHANGED pageVars
  /\ UNCHANGED indexVars

DiffNext ==
  \/ DiffSame
  \/ DiffAdded
  \/ DiffRemoved
  \/ DiffChanged
  \/ DiffKept
  \/ DiffReturn

\* the loop is sequential code: a step that can be taken is taken
DiffSpec == DiffInit /\ [][DiffNext]_vars /\ WF_vars(DiffNext)

-----------------------------------------------------------------------------
(* C16: generateDiff(t, t) returns one entry per line of t, the k-th of type *)
(* unchanged with the k-th line of t as content and k as lineNumber          *)
C16_DiffIdentical ==
  (dpc = "returned" /\ original = fixed)
    => /\ Len(diff) = Len(originalLines)
       /\ \A k \in 1..Len(diff) : diff[k] = Entry("unchanged", originalLines[k], k)

\* generateDiff returned for twice the same text of three lines, one of them
\* empty and one not
C16_Witness ==
  /\ dpc = "returned"
  /\ original = fixed
  /\ Len(originalLines) = 3
  /\ \E j, k \in 1..3 : originalLines[j] = <<>> /\ originalLines[k] # <<>>

(* C17: the loop of generateDiff terminates, every iteration advances at     *)
(* least one cursor, and when the loop exits each cursor equals the number   *)
(* of lines of its text, neither cursor past it                              *)
C17_DiffTermination ==
  /\ <>(dpc = "returned")
  /\ [][dpc' = "loop" => originalIndex' > originalIndex \/ fixedIndex' > fixedIndex]_vars
  /\ [](dpc = "returned" =>
          originalIndex = Len(originalLines) /\ fixedIndex = Len(fixedLines))

-----------------------------------------------------------------------------
\* the suggestions that are about no category: the two for React code and the
\* one for a list of more than five fixes
GeneralSuggestions ==
  {"Consider using React Testing Library's accessibility queries to test your components",
   "Implement focus management for dynamic content and modal dialogs",
   "Run automated accessibility testing tools like axe-core or Lighthouse to catch additional issues"}

(* C18: the suggestions the try branch returns hold one suggestion for each  *)
(* category that occurs among the fixes (Navigation, ARIA and Keyboard       *)
(* Navigation included) and no two for one category                          *)
C18_SuggestionPerCategory ==
  \A run \in Runs :
    (entry.fn = "fixAccessibilityWithAI" /\ entry.fault = "none")
      => LET categories == {f.category : f \in FixesOf(run[2])}
             about == {k \in 1..Len(run[2].suggestions) :
                         run[2].suggestions[k] \notin GeneralSuggestions}
         IN  /\ Cardinality(about) = Cardinality(categories)
             /\ \A j, k \in about : j # k => run[2].suggestions[j] # run[2].suggestions[k]

-----------------------------------------------------------------------------
(* C19 as stated: a fix of one of the five rules carries no confidence, only *)
(* the fixes of the advisory detectors carry one, and every confidence lies  *)
(* in [0,1] (0..100 hundredths)                                              *)
C19_ConfidenceAdvisoryOnly ==
  \A run \in Runs : \A f \in FixesOf(run[2]) :
    /\ IsCoreFix(f) => "confidence" \notin DOMAIN f
    /\ "confidence" \in DOMAIN f => 0 <= f.confidence /\ f.confidence <= 100

(* C19 amended: a fix returned by fixAccessibility carries no confidence,    *)
(* every fix returned by fixAccessibilityWithAI, of one of the five rules or *)
(* of an advisory detector, carries one, and every confidence lies in [0,1]  *)
C19_ConfidenceByEntryPoint ==
  \A run \in Runs : \A f \in FixesOf(run[2]) :
    /\ ("confidence" \in DOMAIN f) <=> (entry.fn = "fixAccessibilityWithAI")
    /\ "confidence" \in DOMAIN f => 0 <= f.confidence /\ f.confidence <= 100

\* fixAccessibilityWithAI returned a fix of one of the five rules and an
\* advisory fix
C19_Witness ==
  /\ pc = "analyzed"
  /\ entry.fn = "fixAccessibilityWithAI"
  /\ \E f, g \in FixesOf(result) : IsCoreFix(f) /\ ~IsCoreFix(g)

-----------------------------------------------------------------------------
\* the fixes of a list whose confidence, in hundredths, lies in lo..hi
NumInBand(fixes, lo, hi) ==
  Cardinality({k \in 1..Len(fixes) :
     /\ "confidence" \in DOMAIN fixes[k]
     /\ lo <= fixes[k].confidence /\ fixes[k].confidence <= hi})

(* C20: the analysis of a non-empty fix list counts as critical the fixes of *)
(* the documented 90-100% band (confidence >= 0.90, the fixes at exactly 0.9 *)
(* included) and as moderate those of the 70-89% band                        *)
C20_DocumentedBands ==
  \A run \in Runs :
    (entry.fn = "fixAccessibilityWithAI" /\ entry.fault = "none" /\ run[2].fixes # <<>>)
      => /\ run[2].analysis.criticalIssues = NumInBand(run[2].fixes, 90, 100)
         /\ run[2].analysis.moderateIssues = NumInBand(run[2].fixes, 70, 89)

-----------------------------------------------------------------------------
(* C21: an iteration of generateDiff that starts with the original cursor    *)
(* exhausted pushes the current rewritten line, empty or not, as added with  *)
(* lineNumber fixedIndex + 1; one that starts with the rewritten cursor      *)
(* exhausted pushes the current original line, empty or not, as removed with *)
(* lineNumber originalIndex + 1                                              *)
C21_ExhaustedSide ==
  [][ /\ (dpc = "loop" /\ originalIndex >= Len(originalLines)
                       /\ fixedIndex < Len(fixedLines))
           => diff' = Append(diff, Entry("added", fixedLines[fixedIndex + 1], fixedIndex + 1))
      /\ (dpc = "loop" /\ fixedIndex >= Len(fixedLines)
                       /\ originalIndex < Len(originalLines))
           => diff' = Append(diff, Entry("removed", originalLines[originalIndex + 1],
                                         originalIndex + 1)) ]_vars

-----------------------------------------------------------------------------
(* C22: an iteration of generateDiff with both cursors in range and the two  *)
(* current lines different advances both cursors and pushes removed then     *)
(* added exactly when the two next lines are equal, a next line out of range *)
(* counting as the empty string; otherwise it pushes one unchanged entry     *)
(* with the original line                                                    *)
C22_OneLineLookahead ==
  [][ (/\ dpc = "loop"
       /\ originalIndex < Len(originalLines) /\ fixedIndex < Len(fixedLines)
       /\ originalLines[originalIndex + 1] # fixedLines[fixedIndex + 1])
      => /\ originalIndex' = originalIndex + 1
         /\ fixedIndex' = fixedIndex + 1
         /\ diff' = IF OrEmpty(originalLines, originalIndex + 1)
                        = OrEmpty(fixedLines, fixedIndex + 1)
                    THEN diff \o << Entry("removed", originalLines[originalIndex + 1],
                                          originalIndex + 1),
                                    Entry("added", fixedLines[fixedIndex + 1],
                                          fixedIndex + 1) >>
                    ELSE Append(diff, Entry("unchanged", originalLines[originalIndex + 1],
                                            originalIndex + 1)) ]_vars

-----------------------------------------------------------------------------
(* C23: the lineNumber of every entry of generateDiff is the 1-based index   *)
(* of a line that exists on the entry's side, the original text for          *)
(* unchanged and removed, the rewritten text for added, and the content is   *)
(* that line                                                                 *)
C23_LineNumbersOnSide ==
  \A k \in 1..Len(diff) :
    LET side == IF diff[k].type = "added" THEN fixedLines ELSE originalLines
    IN  /\ 1 <= diff[k].lineNumber /\ diff[k].lineNumber <= Len(side)
        /\ diff[k].content = side[diff[k].lineNumber]

-----------------------------------------------------------------------------
\* the indices of t at which a <button, <a or <input tag with an
\* aria-labelledby attribute opens
LabelledByTags(t) ==
  {i \in 1..Len(t) :
     \E n \in {<<"<","b","u","t","t","o","n">>, <<"<","a">>, <<"<","i","n","p","u","t">>} :
       /\ StartsAtCI(t, i, n)
       /\ i + Len(n) <= Len(t) /\ t[i + Len(n)] \in WhiteSpace
       /\ TagHasAttribute(t, i, Len(n), {<<"a","r","i","a","-","l","a","b","e","l","l","e","d","b","y">>})}

(* C24: with every entry point, a <button, <a or <input tag that has an      *)
(* aria-labelledby attribute is returned as it was given and no fix of the   *)
(* icon-button, empty-link or unlabeled-input rule is recorded for it        *)
C24_LabelledByRespected ==
  \A run \in Runs : \A i \in LabelledByTags(run[1]) :
    LET e == CountIn(run[1], "<", i)
    IN  /\ TagText(run[2].code, e) = TagText(run[1], e)
        /\ \A f \in CoreFixesOf(run[2]) : f.elem = e => RuleOf(f) \notin {2, 3, 5}

-----------------------------------------------------------------------------
-----------------------------------------------------------------------------
(* C26: a second call of the same entry point with the same source text and  *)
(* language tag returns the same FixResult as the first, code, fixes,        *)
(* hasChanges, analysis and suggestions, whatever the two calls draw from    *)
(* Math.random()                                                             *)
C26_Deterministic ==
  pc = "repeated" => again = result

\* fixAccessibilityWithAI was called twice and returned fixes, an analysis
\* and suggestions
C26_Witness ==
  /\ pc = "repeated"
  /\ entry.fn = "fixAccessibilityWithAI" /\ entry.fault = "none"
  /\ again.fixes # <<>>
  /\ again.analysis.kind = "found"
  /\ again.suggestions # <<>>

-----------------------------------------------------------------------------
\* the number of entries of the given type in diff
EntriesOfType(type) == Cardinality({k \in 1..Len(diff) : diff[k].type = type})

(* C27: with m original lines and n rewritten lines, generateDiff never      *)
(* holds more than m + n entries, more than m removed entries or more than n *)
(* added entries, and it returns at least max(m, n) entries                  *)
C27_DiffSizeBounds ==
  LET m == Len(originalLines)
      n == Len(fixedLines)
  IN  /\ Len(diff) <= m + n
      /\ EntriesOfType("removed") <= m
      /\ EntriesOfType("added") <= n
      /\ dpc = "returned" => Len(diff) >= m /\ Len(diff) >= n

\* a diff returned with m + n entries, more than max(m, n), removed and added
\* ones among them
C27_Witness ==
  /\ dpc = "returned"
  /\ Len(diff) = Len(originalLines) + Len(fixedLines)
  /\ EntriesOfType("removed") > 0
  /\ EntriesOfType("added") > 0

-----------------------------------------------------------------------------
(* The Index pages.  pages/Index calls fixAccessibility from a timer; the    *)
(* AI page awaits fixAccessibilityWithAI.  Both keep sourceCode, result and  *)
(* isAnalyzing; an analysis started and not completed holds the sourceCode   *)
(* of the render its handler was created in.                                 *)

\* result before the first analysis
Null == [null |-> TRUE]

Pages == {"core", "ai"}

\* useState(...) of sourceCode in the AI page
SampleCode ==
  <<"<","b","u","t","t","o","n",">","<","s","v","g","/",">","<","/","b","u","t","t","o","n",">","\n","<","i","m","g"," ","s","r","c","=","\"","/","x",".","p","n","g","\"","/",">","\n","<","a"," ","h","r","e","f","=","\"","#","\"",">","<","/","a",">","\n","<","d","i","v"," ","o","n","C","l","i","c","k","=","{","(",")"," ","=",">"," ","{","}","}","/",">","\n","<","i","n","p","u","t"," ","/",">">>

\* the texts an onChange can bring
IndexTexts == { <<>>, <<" ","\n">>, <<"<","i","m","g",">">>, <<"<","a",">","x","<","/","a",">">> }

\* what the call in the timer callback may meet
CoreFaults == {"none", "fixAccessibility"}

\* sourceCode.includes('jsx') || ... ? 'jsx' : 'html'
detectLanguage(t) ==
  IF Includes(t, <<"j","s","x">>) \/ Includes(t, <<"o","n","C","l","i","c","k">>) \/ Includes(t, <<"c","l","a","s","s","N","a","m","e">>)
    THEN "jsx" ELSE "html"

RECURSIVE DiffLoop(_, _, _, _, _)
\* the loop of generateDiff from the cursors oi and fi, acc the entries so far
DiffLoop(ol, fl, oi, fi, acc) ==
  IF ~(oi < Len(ol) \/ fi < Len(fl)) THEN acc
  ELSE
    LET o == OrEmpty(ol, oi)
        f == OrEmpty(fl, fi)
    IN  IF o = f
          THEN DiffLoop(ol, fl, oi + 1, fi + 1, Append(acc, Entry("unchanged", o, oi + 1)))
        ELSE IF oi >= Len(ol)
          THEN DiffLoop(ol, fl, oi, fi + 1, Append(acc, Entry("added", f, fi + 1)))
        ELSE IF fi >= Len(fl)
          THEN DiffLoop(ol, fl, oi + 1, fi, Append(acc, Entry("removed", o, oi + 1)))
        ELSE IF At(ol, oi + 1) = At(fl, fi + 1)
          THEN DiffLoop(ol, fl, oi + 1, fi + 1,
                        acc \o << Entry("removed", o, oi + 1), Entry("added", f, fi + 1) >>)
        ELSE DiffLoop(ol, fl, oi + 1, fi + 1, Append(acc, Entry("unchanged", o, oi + 1)))

\* generateDiff(original, fixed) as a function of its arguments
generateDiff(o, f) == DiffLoop(Split(o), Split(f), 0, 0, <<>>)

IndexInit ==
  /\ corpus = MixedCorpus
  /\ typed = 0
  /\ pc = "editing"
  /\ entry = [fn |-> "none"]
  /\ second = NoResult
  /\ again = NoResult
  /\ DiffIdle
  /\ page \in Pages
  /\ sourceCode = IF page = "ai" THEN SampleCode ELSE <<>>
  /\ result = Null
  /\ editedCode = <<>>
  /\ isAnalyzing = FALSE
  /\ pending = <<>>
  /\ shownFor = <<>>
  /\ toast = "none"

\* what the Index actions leave alone
IndexRest == <<corpus, typed, pc, entry, second, again>>

\* onChange of the source editor
setSourceCode(t) ==
  /\ sourceCode' = t
  /\ UNCHANGED <<result, page, isAnalyzing, pending, editedCode, shownFor, toast>>
  /\ UNCHANGED IndexRest
  /\ UNCHANGED diffVars

\* onChange of the fixed-code editor of the AI page
setEditedCode(t) ==
  /\ page = "ai"
  /\ editedCode' = t
  /\ UNCHANGED <<sourceCode, result, page, isAnalyzing, pending, shownFor, toast>>
  /\ UNCHANGED IndexRest
  /\ UNCHANGED diffVars

\* the analyze button disabled on a whitespace-only source alone
AnalyzeDisabled_EmptyOnly == Trim(sourceCode) = <<>>

\* the analyze button renders disabled and takes no click
AnalyzeDisabled == isAnalyzing \/ Trim(sourceCode) = <<>>

\* handleAnalyze, from a click on the analyze button, up to the timer being
\* set (core) or the await (ai)
handleAnalyze ==
  /\ ~AnalyzeDisabled
  /\ IF Trim(sourceCode) = <<>>
       THEN /\ toast' = "No code provided"
            /\ UNCHANGED <<isAnalyzing, pending>>
       ELSE /\ isAnalyzing' = TRUE
            /\ pending' = Append(pending, sourceCode)
            /\ UNCHANGED toast
  /\ UNCHANGED <<sourceCode, result, page, editedCode, shownFor>>
  /\ UNCHANGED IndexRest
  /\ UNCHANGED diffVars

\* the try block of the timer callback after fixAccessibility returned
\* fixResult for the text s
AfterCall(s, fixResult) ==
  /\ result' = fixResult
  /\ shownFor' = s
  /\ toast' = IF fixResult.hasChanges THEN "Analysis complete" ELSE "Great job!"

\* the timer callback without its finally block: the flag is released at the
\* end of the try block alone
TimerCallback_NoFinally(fault) ==
  /\ page = "core"
  /\ pending # <<>>
  /\ IF fault = "none"
       THEN /\ AfterCall(Head(pending), fixAccessibility(Head(pending)))
            /\ isAnalyzing' = FALSE
       ELSE /\ toast' = "Analysis failed"
            /\ UNCHANGED <<result, shownFor, isAnalyzing>>
  /\ pending' = Tail(pending)
  /\ UNCHANGED <<sourceCode, page, editedCode>>
  /\ UNCHANGED IndexRest
  /\ UNCHANGED diffVars

\* the callback of setTimeout in pages/Index: try, catch, finally
TimerCallback(fault) ==
  /\ page = "core"
  /\ pending # <<>>
  /\ IF fault = "none"
       THEN AfterCall(Head(pending), fixAccessibility(Head(pending)))
       ELSE /\ toast' = "Analysis failed"
            /\ UNCHANGED <<result, shownFor>>
  /\ isAnalyzing' = FALSE
  /\ pending' = Tail(pending)
  /\ UNCHANGED <<sourceCode, page, editedCode>>
  /\ UNCHANGED IndexRest
  /\ UNCHANGED diffVars

\* the try and catch blocks of the AI page after the await: the promise of
\* fixAccessibilityWithAI(s, language) resolved with fixResult or rejected
AfterAwait(s, fixResult) ==
  IF fixResult # Rejection
    THEN /\ result' = fixResult
         /\ shownFor' = s
         /\ editedCode' = IF fixResult.code # <<>> THEN fixResult.code ELSE s
         /\ toast' = IF fixResult.hasChanges THEN "AI Analysis Complete" ELSE "Excellent!"
    ELSE /\ toast' = "Analysis failed"
         /\ UNCHANGED <<result, shownFor, editedCode>>

\* handleAnalyze of the AI page from the await on: try, catch, finally
AwaitSettled(fault, random) ==
  /\ page = "ai"
  /\ pending # <<>>
  /\ AfterAwait(Head(pending),
                fixAccessibilityWithAI(Head(pending), detectLanguage(Head(pending)),
                                       fault, random))
  /\ isAnalyzing' = FALSE
  /\ pending' = Tail(pending)
  /\ UNCHANGED <<sourceCode, page>>
  /\ UNCHANGED IndexRest
  /\ UNCHANGED diffVars

\* an analysis completes
Completion ==
  \/ \E fault \in CoreFaults : TimerCallback(fault)
  \/ \E fault \in Faults : \E random \in Draws(fault) : AwaitSettled(fault, random)

IndexNext ==
  \/ \E t \in IndexTexts : setSourceCode(t)
  \/ \E t \in IndexTexts : setEditedCode(t)
  \/ handleAnalyze
  \/ Completion

\* the timer fires and the simulated service answers
IndexSpec == IndexInit /\ [][IndexNext]_vars /\ WF_vars(Completion)

\* the ResultsPanel renders the result (not the spinner, not the placeholder)
ShowsResult == page = "core" /\ ~isAnalyzing /\ result # Null

\* const diff = result ? generateDiff(originalCode, result.code) : []
ShownDiff == IF result # Null THEN generateDiff(sourceCode, result.code) ELSE <<>>

-----------------------------------------------------------------------------
(* C28: in both Index pages at most one analysis is pending at any time; an  *)
(* analysis is started only while isAnalyzing is false and sourceCode is not *)
(* whitespace-only; with a whitespace-only sourceCode and nothing pending no *)
(* step starts an analysis or changes result or isAnalyzing                  *)
C28_SingleInFlight ==
  /\ [](Len(pending) <= 1)
  /\ [][ /\ Len(pending') > Len(pending)
              => ~isAnalyzing /\ Trim(sourceCode) # <<>>
         /\ (Trim(sourceCode) = <<>> /\ pending = <<>>)
              => /\ pending' = pending
                 /\ result' = result
                 /\ isAnalyzing' = isAnalyzing ]_vars

\* an analysis is pending and the source was edited to a whitespace-only
\* text meanwhile
C28_Witness ==
  /\ isAnalyzing
  /\ Len(pending) = 1
  /\ sourceCode # pending[1]
  /\ sourceCode # <<>> /\ Trim(sourceCode) = <<>>

-----------------------------------------------------------------------------
(* C29: in both Index pages isAnalyzing, once true, becomes false again;     *)
(* every completion, of a call that returned or of one that threw, sets it   *)
(* to false, and a completion that reports a failure leaves result as it was *)
C29_FlagReleased ==
  /\ isAnalyzing ~> ~isAnalyzing
  /\ [][ /\ Len(pending') < Len(pending) => ~isAnalyzing'
         /\ (Len(pending') < Len(pending) /\ toast' = "Analysis failed")
              => result' = result ]_vars

\* an analysis failed after an earlier one had stored a result, and the flag
\* is released
C29_Witness ==
  /\ toast = "Analysis failed"
  /\ result # Null
  /\ ~isAnalyzing
  /\ pending = <<>>

-----------------------------------------------------------------------------
(* C30: whenever the ResultsPanel of pages/Index shows a result, the diff it *)
(* renders is generateDiff(s, result.code) for the source text s the result  *)
(* was computed from                                                         *)
C30_DiffOfAnalyzedSource ==
  ShowsResult => ShownDiff = generateDiff(shownFor, result.code)

====
